---- MODULE Spec2Model ----
(***************************************************************************)
(* The service-request controller of ThrivePro                             *)
(* (Backend/controllers/serviceRequestController.js) as a state machine.   *)
(*                                                                         *)
(* The store of ServiceRequest documents is the sequence `requests`; the   *)
(* _id of a document is its index.  createServiceRequest only inserts, so  *)
(* it is one action, taken at the instant of the insert (createdAt = now);  *)
(* the clock its past-slot check read earlier, `date`, is an input with    *)
(* date <= now, and so is the Service collection its lookup read earlier,  *)
(* `catalogue`, one of the values the collection has held.                 *)
(* updateServiceRequestStatus reads the document (findById), decides, and *)
(* writes it back (save) after an await: it is two actions, and several    *)
(* calls may be between their read and their save.                         *)
(* The payment-confirmation event is not part of the controller; it is     *)
(* modelled from the specification's transition table.  Nor is the editing *)
(* of a provider's listing: it is modelled as the specification speaks of   *)
(* it, a later change of the name or the price of a Service document.       *)
(***************************************************************************)
EXTENDS Integers, Sequences, FiniteSets, TLC

VARIABLES
    requests,   \* the ServiceRequest collection, in insertion order
    services,   \* the Service collection, as it is now
    history,    \* per document, the statuses it has held, in the runs that
                \* keep that log (the program keeps none: it serves the claims
                \* about a record's past)
    updating,   \* per connection: the updateServiceRequestStatus call awaiting save()
    now,        \* the server clock, in ticks
    req,        \* the request the last response answers, as the server received it
    res,        \* the last response sent: status code and message
    page        \* the page open in a browser: its React state, the list effect
                \* that is due, and the requests it has in flight

vars == <<requests, services, history, updating, now, req, res, page>>

----------------------------------------------------------------------------
(* Bounds of the model *)

MaxTime == 1        \* the clock runs 0..MaxTime
MaxRequests == 1    \* documents in the store under Spec
MaxCreated == 1     \* documents in the store under SpecCreate
MaxListed == 2      \* documents in the store under SpecStore
MaxIssued == 3      \* requests a page sends under SpecPages

----------------------------------------------------------------------------
(* The collaborators the controller queries: User and Service collections *)

User ==
    { [_id |-> "c1", role |-> "customer", name |-> "Asha",  phone_number |-> "111"],
      [_id |-> "c2", role |-> "customer", name |-> "Bina",  phone_number |-> "222"],
      [_id |-> "p1", role |-> "provider", name |-> "Pavel", phone_number |-> "333"],
      [_id |-> "p2", role |-> "provider", name |-> "Quinn", phone_number |-> "444"] }

\* The Service collection at the start.  c1 was a provider once: its listing
\* s3 is still there.
Service ==
    { [_id |-> "s1", name |-> "Haircut", provider |-> "p1", price |-> 10],
      [_id |-> "s2", name |-> "Massage", provider |-> "p2", price |-> 20],
      [_id |-> "s3", name |-> "Massage", provider |-> "c1", price |-> 20] }

Customers == { u \in User : u.role = "customer" }
Providers == { u._id : u \in { v \in User : v.role = "provider" } }

\* faulty variant: the role left out of the query
UserFindOne_anyRole(id, role) == { u \in User : u._id = id }

\* User.findOne({ _id: providerId, role: 'provider' })
UserFindOne(id, role) == { u \in User : u._id = id /\ u.role = role }

\* faulty variant: the provider left out of the query
ServiceFindOne_byName(catalogue, name, provider) ==
    { s \in catalogue : s.name = name }

\* Service.findOne({ name: serviceName, provider: providerId }), answered from
\* the Service collection as it was when the query ran
ServiceFindOne(catalogue, name, provider) ==
    { s \in catalogue : s.name = name /\ s.provider = provider }

\* The values the Service collection has held up to now.  A handler awaits
\* between its query of the collection and its insert, so the collection it
\* queried is any of these.  A listing is edited at most once (Edits): the
\* collection has held its first value and the one it holds now.
Catalogues == {Service, services}

----------------------------------------------------------------------------
(* Values of request bodies.  A missing or empty string field is "", a      *)
(* missing or zero price is 0: both are falsy in JavaScript.  A time_slot   *)
(* is the text the client sent: missing, unparseable, or the text of an     *)
(* instant.                                                                 *)

NoSlot   == [kind |-> "missing", ms |-> 0]
BadSlot  == [kind |-> "garbage", ms |-> 0]
DateSlot(t) == [kind |-> "date", ms |-> t]

FalsyStr(v) == v = ""
FalsyNum(v) == v = 0
FalsySlot(v) == v.kind = "missing"

\* new Date(time_slot): the instant, or Invalid Date
ParseDate(v) == IF v.kind = "date" THEN [valid |-> TRUE, ms |-> v.ms]
                ELSE [valid |-> FALSE, ms |-> 0]

Statuses == {"pending", "accepted", "rejected", "in-progress", "completed",
             "PaymentCompleted"}

\* A response: the HTTP status, the message (by its kind), the statuses the
\* message quotes, and the `results` count and the documents of a list response.
NoRes == [code |-> 0, message |-> "", from |-> "", to |-> "", results |-> 0,
          data |-> << >>]
Reply(c, m) == [code |-> c, message |-> m, from |-> "", to |-> "", results |-> 0,
                data |-> << >>]

NoBody ==
    [ providerId |-> "", serviceName |-> "", servicePrice |-> 0,
      customerAddress |-> "", nearestPoint |-> "", time_slot |-> NoSlot ]

\* A request as received: the handler (op), the authenticated user, the body of
\* a POST with the clock its past-slot check read (date), the :id and the status
\* of a PATCH; and what the store held when the handler ran: the number of
\* documents before a POST (count), the status of document :id as a PATCH read
\* it (stored, "" if there is none).
NoReq ==
    [ op |-> "", user |-> "", body |-> NoBody, date |-> 0, id |-> 0, status |-> "",
      stored |-> "", count |-> 0 ]

Idle == [pc |-> "idle", id |-> 0, status |-> "", providerId |-> "",
         currentStatus |-> ""]

\* the connections that may each have one update in flight
Sessions == {"a", "b"}

\* no page open.  Besides what the component holds (selectedOrder is the _id
\* of the order whose details are open, 0 for null), the record keeps two
\* notes for the claims: the handler or continuation that ran last, and the
\* outcome of the latest-issued list request among those that have completed.
NoPage ==
    [ kind |-> "", token |-> FALSE, list |-> << >>, loading |-> TRUE, due |-> FALSE,
      selectedOrder |-> 0,
      issued |-> 0, net |-> {}, last |-> [step |-> "", n |-> 0, id |-> 0],
      fresh |-> [n |-> 0, list |-> << >>] ]

Init ==
    /\ requests = << >>
    /\ services = Service
    /\ history = [on |-> FALSE, log |-> << >>]
    /\ updating = [s \in Sessions |-> Idle]
    /\ now = 0
    /\ req = NoReq
    /\ res = NoRes
    /\ page = NoPage

\* the log after a step, where it is kept: each document's status after the
\* step joins the statuses it has held
Logged ==
    IF history.on
    THEN history' = [history EXCEPT !.log =
                       [i \in 1..Len(requests') |->
                          (IF i \in 1..Len(history.log) THEN history.log[i] ELSE {})
                          \cup {requests'[i].status}]]
    ELSE UNCHANGED history

----------------------------------------------------------------------------
(* The clock *)

Tick ==
    /\ now < MaxTime
    /\ now' = now + 1
    /\ UNCHANGED <<page, requests, services, history, updating, req, res>>

----------------------------------------------------------------------------
(* createServiceRequest *)

\* faulty variant: the address left out of the condition
MissingField_noAddress(body) ==
    \/ FalsyStr(body.providerId)
    \/ FalsyStr(body.serviceName)
    \/ FalsyNum(body.servicePrice)
    \/ FalsySlot(body.time_slot)

\* if (!providerId || !serviceName || !servicePrice || !customerAddress || !time_slot)
MissingField(body) ==
    \/ FalsyStr(body.providerId)
    \/ FalsyStr(body.serviceName)
    \/ FalsyNum(body.servicePrice)
    \/ FalsyStr(body.customerAddress)
    \/ FalsySlot(body.time_slot)

\* faulty variants of the past-slot check: the check left out; <= for <
InThePast_never(requestedDateTime, date) == FALSE
InThePast_orNow(requestedDateTime, date) == requestedDateTime <= date

\* if (requestedDateTime < new Date())
InThePast(requestedDateTime, date) == requestedDateTime < date

\* faulty variant: the customer taken from the body's providerId
NewServiceRequest_customer(id, user, body, actualService, requestedDateTime, createdAt) ==
    [ _id                         |-> id,
      customer                    |-> body.providerId,
      provider                    |-> body.providerId,
      service                     |-> actualService._id,
      serviceNameSnapshot         |-> body.serviceName,
      servicePriceSnapshot        |-> body.servicePrice,
      customerAddress             |-> body.customerAddress,
      customerPhoneNumberSnapshot |-> user.phone_number,
      customerNameSnapshot        |-> user.name,
      nearestPoint                |-> body.nearestPoint,
      time_slot                   |-> requestedDateTime,
      status                      |-> "pending",
      createdAt                   |-> createdAt ]

\* faulty variant: the initial status written with a capital
NewServiceRequest_capital(id, user, body, actualService, requestedDateTime, createdAt) ==
    [ _id                         |-> id,
      customer                    |-> user._id,
      provider                    |-> body.providerId,
      service                     |-> actualService._id,
      serviceNameSnapshot         |-> body.serviceName,
      servicePriceSnapshot        |-> body.servicePrice,
      customerAddress             |-> body.customerAddress,
      customerPhoneNumberSnapshot |-> user.phone_number,
      customerNameSnapshot        |-> user.name,
      nearestPoint                |-> body.nearestPoint,
      time_slot                   |-> requestedDateTime,
      status                      |-> "Pending",
      createdAt                   |-> createdAt ]

\* The document ServiceRequest.create() inserts; createdAt is stamped by the insert.
NewServiceRequest(id, user, body, actualService, requestedDateTime, createdAt) ==
    [ _id                         |-> id,
      customer                    |-> user._id,
      provider                    |-> body.providerId,
      service                     |-> actualService._id,
      serviceNameSnapshot         |-> body.serviceName,
      servicePriceSnapshot        |-> body.servicePrice,
      customerAddress             |-> body.customerAddress,
      customerPhoneNumberSnapshot |-> user.phone_number,
      customerNameSnapshot        |-> user.name,
      nearestPoint                |-> body.nearestPoint,
      time_slot                   |-> requestedDateTime,
      status                      |-> "pending",
      createdAt                   |-> createdAt ]

\* faulty variant: a booking that replaces the customer's earlier bookings
createServiceRequest_replacing(user, body, date, catalogue) ==
    /\ date \in 0..now
    /\ catalogue \in Catalogues
    /\ UNCHANGED <<page, services, updating, now>>
    /\ req' = [NoReq EXCEPT !.op = "create", !.user = user._id, !.body = body,
                            !.date = date, !.count = Len(requests)]
    /\ IF MissingField(body)
       THEN res' = Reply(400, "ProvideFields") /\ UNCHANGED requests
       ELSE IF UserFindOne(body.providerId, "provider") = {}
       THEN res' = Reply(404, "InvalidProvider") /\ UNCHANGED requests
       ELSE IF ServiceFindOne(catalogue, body.serviceName, body.providerId) = {}
       THEN res' = Reply(404, "ServiceNotFound") /\ UNCHANGED requests
       ELSE IF ~ParseDate(body.time_slot).valid
       THEN res' = Reply(400, "InvalidDate") /\ UNCHANGED requests
       ELSE IF InThePast(ParseDate(body.time_slot).ms, date)
       THEN res' = Reply(400, "SlotInPast") /\ UNCHANGED requests
       ELSE \E actualService \in ServiceFindOne(catalogue, body.serviceName, body.providerId) :
              /\ requests' = Append(SelectSeq(requests,
                                              LAMBDA r : r.customer # user._id),
                     NewServiceRequest(Len(requests) + 1, user, body, actualService,
                                       ParseDate(body.time_slot).ms, now))
              /\ res' = Reply(201, "Created")
    /\ Logged

\* POST /service-requests by the authenticated `user`, at the instant of its
\* insert (`now`).  The handler awaited on the way: `catalogue` is the Service
\* collection as Service.findOne read it, `date` the clock as the past-slot
\* check read it.
createServiceRequest(user, body, date, catalogue) ==
    /\ date \in 0..now
    /\ catalogue \in Catalogues
    /\ UNCHANGED <<page, services, updating, now>>
    /\ req' = [NoReq EXCEPT !.op = "create", !.user = user._id, !.body = body,
                            !.date = date, !.count = Len(requests)]
    /\ IF MissingField(body)
       THEN res' = Reply(400, "ProvideFields") /\ UNCHANGED requests
       ELSE IF UserFindOne(body.providerId, "provider") = {}
       THEN res' = Reply(404, "InvalidProvider") /\ UNCHANGED requests
       ELSE IF ServiceFindOne(catalogue, body.serviceName, body.providerId) = {}
       THEN res' = Reply(404, "ServiceNotFound") /\ UNCHANGED requests
       ELSE IF ~ParseDate(body.time_slot).valid
       THEN res' = Reply(400, "InvalidDate") /\ UNCHANGED requests
       ELSE IF InThePast(ParseDate(body.time_slot).ms, date)
       THEN res' = Reply(400, "SlotInPast") /\ UNCHANGED requests
       ELSE \E actualService \in ServiceFindOne(catalogue, body.serviceName, body.providerId) :
              /\ requests' = Append(requests,
                     NewServiceRequest(Len(requests) + 1, user, body, actualService,
                                       ParseDate(body.time_slot).ms, now))
              /\ res' = Reply(201, "Created")
    /\ Logged

----------------------------------------------------------------------------
(* getProviderServiceRequests *)

\* ServiceRequest.find({ provider: providerId })
FindByProvider(providerId) ==
    { i \in 1..Len(requests) : requests[i].provider = providerId }

\* faulty variant: createdAt ascending
SortNewestFirst_ascending(S) ==
    { l \in [1..Cardinality(S) -> S] :
        /\ \A i, j \in 1..Cardinality(S) : i # j => l[i] # l[j]
        /\ \A i, j \in 1..Cardinality(S) :
              i < j => requests[l[i]].createdAt <= requests[l[j]].createdAt }

\* .sort({ createdAt: -1 }): the orders of the ids in S with createdAt descending
\* (documents with equal createdAt come in either order)
SortNewestFirst(S) ==
    { l \in [1..Cardinality(S) -> S] :
        /\ \A i, j \in 1..Cardinality(S) : i # j => l[i] # l[j]
        /\ \A i, j \in 1..Cardinality(S) :
              i < j => requests[l[i]].createdAt >= requests[l[j]].createdAt }

\* .populate('customer', 'name email phone_number').populate('service', 'name
\* description'): the references replaced by the selected fields, as the User
\* and Service collections hold them now (null if the reference is dangling)
Null == [_id |-> ""]
Populate(doc) ==
    [doc EXCEPT
       !.customer = IF \E u \in User : u._id = doc.customer
                    THEN LET u == CHOOSE v \in User : v._id = doc.customer
                         IN  [_id |-> u._id, name |-> u.name,
                              phone_number |-> u.phone_number]
                    ELSE Null,
       !.service  = IF \E v \in services : v._id = doc.service
                    THEN LET v == CHOOSE w \in services : w._id = doc.service
                         IN  [_id |-> v._id, name |-> v.name]
                    ELSE Null]

\* faulty variant: a listing that marks the pending documents it lists accepted
getProviderServiceRequests_marking(providerId) ==
    /\ \E sorted \in SortNewestFirst(FindByProvider(providerId)) :
          LET serviceRequests == [k \in 1..Len(sorted) |-> Populate(requests[sorted[k]])]
          IN  res' = [Reply(200, "List") EXCEPT
                        !.results = Len(serviceRequests),
                        !.data = serviceRequests]
    /\ req' = [NoReq EXCEPT !.op = "list", !.user = providerId]
    /\ requests' = [i \in 1..Len(requests) |->
                      IF requests[i].provider = providerId
                         /\ requests[i].status = "pending"
                      THEN [requests[i] EXCEPT !.status = "accepted"]
                      ELSE requests[i]]
    /\ UNCHANGED <<page, services, updating, now>>
    /\ Logged

\* GET /service-requests/provider by the authenticated provider.  find() gives
\* an array, which is never falsy: the 404 branch is not taken.
getProviderServiceRequests(providerId) ==
    /\ \E sorted \in SortNewestFirst(FindByProvider(providerId)) :
          LET serviceRequests == [k \in 1..Len(sorted) |-> Populate(requests[sorted[k]])]
          IN  res' = [Reply(200, "List") EXCEPT
                        !.results = Len(serviceRequests),
                        !.data = serviceRequests]
    /\ req' = [NoReq EXCEPT !.op = "list", !.user = providerId]
    /\ UNCHANGED <<page, requests, services, history, updating, now>>

----------------------------------------------------------------------------
(* getCustomerServiceRequests *)

\* GET /service-requests/customer by the authenticated customer.  The controller
\* has no such handler, only the note that it is still to be written: the
\* request finds nothing to serve it and is answered 404, without a list.
getCustomerServiceRequests(customerId) ==
    /\ res' = Reply(404, "NoHandler")
    /\ req' = [NoReq EXCEPT !.op = "listOfCustomer", !.user = customerId]
    /\ UNCHANGED <<page, requests, services, history, updating, now>>

----------------------------------------------------------------------------
(* updateServiceRequestStatus *)

allowedStatusesByProvider == {"accepted", "rejected", "in-progress", "completed"}

\* faulty variant: the _id left out of the query
FindById_any(requestId) == { requests[i] : i \in 1..Len(requests) }

\* ServiceRequest.findById(requestId): the documents with that _id
FindById(requestId) ==
    { requests[i] : i \in { j \in 1..Len(requests) : j = requestId } }

\* faulty variants of the provider check: left out; made for p1's records only
NotAssignedProvider_never(serviceRequest, providerId) == FALSE
NotAssignedProvider_first(serviceRequest, providerId) ==
    serviceRequest.provider # providerId /\ serviceRequest.provider = "p1"

\* serviceRequest.provider.toString() !== providerId
NotAssignedProvider(serviceRequest, providerId) == serviceRequest.provider # providerId

\* faulty variants of the chain: pending -> in-progress let through; the last
\* branch lost
isValidTransition_skip(currentStatus, newStatus) ==
    IF currentStatus = "pending" /\ (newStatus = "accepted" \/ newStatus = "rejected"
                                      \/ newStatus = "in-progress")
    THEN TRUE
    ELSE IF currentStatus = "accepted" /\ newStatus = "in-progress"
    THEN TRUE
    ELSE IF currentStatus = "in-progress" /\ newStatus = "completed"
    THEN TRUE
    ELSE FALSE
isValidTransition_short(currentStatus, newStatus) ==
    IF currentStatus = "pending" /\ (newStatus = "accepted" \/ newStatus = "rejected")
    THEN TRUE
    ELSE IF currentStatus = "accepted" /\ newStatus = "in-progress"
    THEN TRUE
    ELSE FALSE

\* faulty variant: accepted -> completed let through
isValidTransition_jump(currentStatus, newStatus) ==
    IF currentStatus = "pending" /\ (newStatus = "accepted" \/ newStatus = "rejected")
    THEN TRUE
    ELSE IF currentStatus = "accepted"
            /\ (newStatus = "in-progress" \/ newStatus = "completed")
    THEN TRUE
    ELSE IF currentStatus = "in-progress" /\ newStatus = "completed"
    THEN TRUE
    ELSE FALSE

\* the if / else-if chain that sets isValidTransition
isValidTransition(currentStatus, newStatus) ==
    IF currentStatus = "pending" /\ (newStatus = "accepted" \/ newStatus = "rejected")
    THEN TRUE
    ELSE IF currentStatus = "accepted" /\ newStatus = "in-progress"
    THEN TRUE
    ELSE IF currentStatus = "in-progress" /\ newStatus = "completed"
    THEN TRUE
    ELSE FALSE

\* the status of document :id as the store holds it ("" if there is none)
StoredStatus(requestId) ==
    IF requestId \in 1..Len(requests) THEN requests[requestId].status ELSE ""

PatchReq(requestId, newStatus, providerId, stored) ==
    [NoReq EXCEPT !.op = "update", !.user = providerId, !.id = requestId,
                  !.status = newStatus, !.stored = stored]

\* PATCH /service-requests/:id/provider up to its await of save(): validate the
\* body, read the document, check the provider and the transition.  A call that
\* passes waits in updating[s]; one that fails is answered at once.
updateServiceRequestStatus(s, requestId, newStatus, providerId) ==
    /\ updating[s] = Idle
    /\ UNCHANGED <<page, requests, services, history, now>>
    /\ LET received == PatchReq(requestId, newStatus, providerId,
                                StoredStatus(requestId))
       IN
       IF FalsyStr(newStatus) \/ newStatus \notin allowedStatusesByProvider
       THEN /\ res' = [Reply(400, "InvalidStatusValue") EXCEPT !.to = newStatus]
            /\ req' = received
            /\ UNCHANGED updating
       ELSE IF FindById(requestId) = {}
       THEN /\ res' = Reply(404, "RequestNotFound")
            /\ req' = received
            /\ UNCHANGED updating
       ELSE \E serviceRequest \in FindById(requestId) :
            IF NotAssignedProvider(serviceRequest, providerId)
            THEN /\ res' = Reply(403, "NotAuthorized")
                 /\ req' = received
                 /\ UNCHANGED updating
            ELSE IF ~isValidTransition(serviceRequest.status, newStatus)
            THEN /\ res' = [Reply(400, "CannotChange") EXCEPT
                               !.from = serviceRequest.status, !.to = newStatus]
                 /\ req' = received
                 /\ UNCHANGED updating
            ELSE /\ updating' = [updating EXCEPT ![s] =
                        [pc |-> "save", id |-> requestId, status |-> newStatus,
                         providerId |-> providerId,
                         currentStatus |-> serviceRequest.status]]
                 /\ UNCHANGED <<req, res>>

\* faulty variant: a save() that writes only if the document still holds the
\* status that was read, and answers 409 otherwise
save_ifUnchanged(s) ==
    /\ updating[s].pc = "save"
    /\ IF requests[updating[s].id].status = updating[s].currentStatus
       THEN /\ requests' = [requests EXCEPT
                               ![updating[s].id].status = updating[s].status]
            /\ res' = [Reply(200, "Updated") EXCEPT !.to = updating[s].status]
       ELSE /\ res' = Reply(409, "Conflict")
            /\ UNCHANGED requests
    /\ req' = PatchReq(updating[s].id, updating[s].status, updating[s].providerId,
                       updating[s].currentStatus)
    /\ updating' = [updating EXCEPT ![s] = Idle]
    /\ UNCHANGED <<page, services, now>>
    /\ Logged

\* faulty variant: a save() that also copies the name and the price of the
\* document's service, as they are now, into the snapshots
save_resync(s) ==
    /\ updating[s].pc = "save"
    /\ LET live == CHOOSE v \in services : v._id = requests[updating[s].id].service
       IN  requests' = [requests EXCEPT
                          ![updating[s].id].status = updating[s].status,
                          ![updating[s].id].serviceNameSnapshot = live.name,
                          ![updating[s].id].servicePriceSnapshot = live.price]
    /\ res' = [Reply(200, "Updated") EXCEPT !.to = updating[s].status]
    /\ req' = PatchReq(updating[s].id, updating[s].status, updating[s].providerId,
                       updating[s].currentStatus)
    /\ updating' = [updating EXCEPT ![s] = Idle]
    /\ UNCHANGED <<page, services, now>>
    /\ Logged

\* serviceRequest.status = newStatus; await serviceRequest.save(); res.status(200)
\* save() writes the modified path, status, of the document with that _id.
save(s) ==
    /\ updating[s].pc = "save"
    /\ requests' = [requests EXCEPT ![updating[s].id].status = updating[s].status]
    /\ res' = [Reply(200, "Updated") EXCEPT !.to = updating[s].status]
    /\ req' = PatchReq(updating[s].id, updating[s].status, updating[s].providerId,
                       updating[s].currentStatus)
    /\ updating' = [updating EXCEPT ![s] = Idle]
    /\ UNCHANGED <<page, services, now>>
    /\ Logged

----------------------------------------------------------------------------
(* The payment-confirmation event: completed -> PaymentCompleted *)

paymentCompleted(requestId) ==
    /\ requestId \in 1..Len(requests)
    /\ requests[requestId].status = "completed"
    /\ requests' = [requests EXCEPT ![requestId].status = "PaymentCompleted"]
    /\ UNCHANGED <<page, services, updating, now, req, res>>
    /\ Logged

----------------------------------------------------------------------------
(* A provider edits a listing: the name and the price of a Service document *)

editService(serviceId, name, price) ==
    /\ \E v \in services : v._id = serviceId /\ <<v.name, v.price>> # <<name, price>>
    /\ services' = { IF v._id = serviceId
                     THEN [v EXCEPT !.name = name, !.price = price]
                     ELSE v : v \in services }
    /\ UNCHANGED <<page, requests, history, updating, now, req, res>>

----------------------------------------------------------------------------
(* Inputs *)

Slots == {NoSlot, BadSlot} \cup { DateSlot(t) : t \in 0..(MaxTime + 1) }

\* the booking of a catalogue service at its listed price
Booking(svc, slot) ==
    [ providerId      |-> svc.provider,
      serviceName     |-> svc.name,
      servicePrice    |-> svc.price,
      customerAddress |-> "12 Lake Road",
      nearestPoint    |-> "Clock tower",
      time_slot       |-> slot ]

\* the bodies a client sends to POST /service-requests under SpecCreate: a
\* booking of a provider's listing in which the slot is any of Slots and the
\* providerId or the serviceName may be missing or another, or in which the
\* slot is after the clock's last tick and the price, the address or the
\* nearest point may be missing or another
Bodies ==
    LET Listed == { v \in Service : v.provider \in Providers }
        AnySlot == { Booking(svc, slot) : svc \in Listed, slot \in Slots }
        Late    == { Booking(svc, DateSlot(MaxTime + 1)) : svc \in Listed }
    IN  UNION { { [b EXCEPT !.providerId = v] : v \in {"", "p1", "p2", "c1", "ghost"} }
                \cup { [b EXCEPT !.serviceName = v] : v \in {"", "Haircut", "Massage"} }
                : b \in AnySlot }
        \cup
        UNION { { [b EXCEPT !.servicePrice = v] : v \in {0, 10, 20} }
                \cup { [b EXCEPT !.customerAddress = v] : v \in {"", "12 Lake Road"} }
                \cup { [b EXCEPT !.nearestPoint = v] : v \in {"", "Clock tower"} }
                : b \in Late }

\* who books what under Spec: c1 the haircut of p1, c2 the massage of p2
Bookings ==
    { <<pair[1], Booking(pair[2], DateSlot(MaxTime + 1))>> :
        pair \in { q \in Customers \X Service :
                     \/ q[1]._id = "c1" /\ q[2]._id = "s1"
                     \/ q[1]._id = "c2" /\ q[2]._id = "s2" } }

RequestIds == 1..(MaxRequests + 1)
StatusValues == Statuses \cup {"", "cancelled"}

----------------------------------------------------------------------------
(* Spec: the life of requests, booked from the catalogue.  Neither PATCH nor  *)
(* GET reads the clock, which stands still under Spec.                       *)

Next ==
    \/ \E booking \in Bookings, date \in 0..now, catalogue \in Catalogues :
         createServiceRequest(booking[1], booking[2], date, catalogue)
           /\ Len(requests') <= MaxRequests
    \/ \E providerId \in Providers : getProviderServiceRequests(providerId)
    \/ \E s \in Sessions, requestId \in RequestIds, newStatus \in StatusValues,
          providerId \in Providers :
         updateServiceRequestStatus(s, requestId, newStatus, providerId)
    \/ \E s \in Sessions : save(s)
    \/ \E requestId \in RequestIds : paymentCompleted(requestId)

Spec == Init /\ [][Next]_vars

(* SpecCreate: the bodies and both clock readings of createServiceRequest,   *)
(* until MaxCreated documents are stored                                     *)

NextCreate ==
    \/ Tick
    \/ /\ Len(requests) < MaxCreated
       /\ \E user \in Customers, body \in Bodies, date \in 0..now,
             catalogue \in Catalogues :
            createServiceRequest(user, body, date, catalogue)

SpecCreate == Init /\ [][NextCreate]_vars

(* SpecHistory: the PATCH calls of the records' own providers, interleaved,  *)
(* with the log of the statuses each record has held                         *)

InitHistory ==
    /\ requests = << >>
    /\ services = Service
    /\ history = [on |-> TRUE, log |-> << >>]
    /\ updating = [s \in Sessions |-> Idle]
    /\ now = 0
    /\ req = NoReq
    /\ res = NoRes
    /\ page = NoPage

NextHistory ==
    \/ \E booking \in Bookings, date \in 0..now, catalogue \in Catalogues :
         createServiceRequest(booking[1], booking[2], date, catalogue)
           /\ Len(requests') <= MaxRequests
    \/ \E s \in Sessions, requestId \in 1..Len(requests),
          newStatus \in allowedStatusesByProvider :
         updateServiceRequestStatus(s, requestId, newStatus,
                                    requests[requestId].provider)
    \/ \E s \in Sessions : save(s)
    \/ \E requestId \in 1..Len(requests) : paymentCompleted(requestId)

SpecHistory == InitHistory /\ [][NextHistory]_vars

(* SpecStore: a store of several documents, booked at different instants    *)
(* with different providers, while listings are edited; one PATCH at a time. *)
(* A booking's past-slot check may have read the clock before the tick that  *)
(* precedes its insert.  The store sees the clock only in createdAt: the     *)
(* clock stops when the store is full.                                       *)

\* the edit of p1's haircut: a new name and a new price
Edits == { <<"s1", "Trim", 15>> }

\* the statuses a PATCH asks for under SpecStore
StoreStatusValues == {"pending", "accepted", "in-progress"}

NextStore ==
    \/ Tick /\ Len(requests) < MaxListed
    \/ \E booking \in Bookings, date \in 0..now, catalogue \in Catalogues :
         createServiceRequest(booking[1], booking[2], date, catalogue)
           /\ Len(requests') <= MaxListed
    \/ \E providerId \in Providers : getProviderServiceRequests(providerId)
    \/ \E customer \in Customers : getCustomerServiceRequests(customer._id)
    \/ \E requestId \in 1..(Len(requests) + 1), newStatus \in StoreStatusValues,
          providerId \in Providers :
         updateServiceRequestStatus("a", requestId, newStatus, providerId)
    \/ save("a")
    \/ \E edit \in Edits : editService(edit[1], edit[2], edit[3])

SpecStore == Init /\ [][NextStore]_vars

----------------------------------------------------------------------------
(* The pages: the customer's Orders page, the provider's Orders page in its *)
(* three versions and the provider's Requests page in its two.  A page      *)
(* keeps the list, the loading flag and the token of its user; its requests *)
(* travel as messages, answered by the server and then read by the code     *)
(* after the await.                                                         *)

\* the versions, by the file that holds them (part_001 holds two)
CustomerOrders == {"Orders.tsx"}
ProviderOrders == {"ServiceCard.jsx", "part_001/1", "part_001/2"}
ProviderRequests == {"Requests.jsx", "part_002"}
Pages == CustomerOrders \cup ProviderOrders \cup ProviderRequests

\* the user of a page
PageUser(kind) == IF kind \in CustomerOrders THEN "c1" ELSE "p1"

\* the dependency array of the list effect names the list itself: [user, toast,
\* orders] in the second version of part_001, [user, toast, requests] in
\* part_002; [user], [user, toast] or [fetchOrders] in the others
ListInDeps(kind) == kind \in {"part_001/2", "part_002"}

\* setOrders / setRequests with an array: map, filter, a response's array and
\* the literal [] are each a new array, so the component renders again and an
\* effect that depends on the list is due
Stored(p, list) == [p EXCEPT !.list = list, !.due = p.due \/ ListInDeps(p.kind)]

Step(name, n, id) == [step |-> name, n |-> n, id |-> id]

\* a request in flight: its number in the order of issue, the method, the :id
\* and the status of a PATCH, the list the handler that sent it had in its
\* closure, and, once the server or the network has answered, the reply and the
\* array it carries (a PATCH that passed the checks of the server and awaits
\* its save() is "saving")
Message(n, method, id, status, closure) ==
    [ n |-> n, method |-> method, id |-> id, status |-> status,
      closure |-> closure, reply |-> "", data |-> << >> ]

\* faulty variant: a fetch that asks the server without a token
Fetch_unguarded(p, name, id) ==
    [p EXCEPT !.loading = TRUE,
              !.issued = p.issued + 1,
              !.net = p.net \cup {Message(p.issued + 1, "GET", 0, "", << >>)},
              !.last = Step(name, p.issued + 1, id)]

\* fetchOrders / fetchRequests up to the await: without a token the list is
\* emptied and loading ends; with one, loading starts and the GET leaves
Fetch(p, name, id) ==
    IF ~p.token
    THEN [Stored(p, << >>) EXCEPT !.loading = FALSE, !.last = Step(name, 0, id)]
    ELSE [p EXCEPT !.loading = TRUE,
                   !.issued = p.issued + 1,
                   !.net = p.net \cup {Message(p.issued + 1, "GET", 0, "", << >>)},
                   !.last = Step(name, p.issued + 1, id)]

\* the page may send another request (the bound of the model)
MaySend == page.token => page.issued < MaxIssued

\* useEffect(() => { fetchOrders(); }, deps) of the Orders pages: runs after the
\* first render and after a render that changed a dependency
fetchOrders ==
    /\ page.kind \in CustomerOrders \cup ProviderOrders
    /\ page.due
    /\ MaySend
    /\ page' = Fetch([page EXCEPT !.due = FALSE], "fetchOrders", 0)
    /\ UNCHANGED <<requests, services, history, updating, now, req, res>>

\* useEffect(() => { fetchRequests(); }, deps) of the Requests pages
fetchRequests ==
    /\ page.kind \in ProviderRequests
    /\ page.due
    /\ MaySend
    /\ page' = Fetch([page EXCEPT !.due = FALSE], "fetchRequests", 0)
    /\ UNCHANGED <<requests, services, history, updating, now, req, res>>

\* the user logs out: useUser() gives a user without a token, and the effect,
\* which depends on user in every version, is due
logout ==
    /\ page.token
    /\ page' = [page EXCEPT !.token = FALSE, !.due = TRUE, !.last = Step("logout", 0, 0)]
    /\ UNCHANGED <<requests, services, history, updating, now, req, res>>

\* the message of the page as the server or the network has answered it
Answer(m, reply, data) ==
    [page EXCEPT !.net = (page.net \ {m}) \cup {[m EXCEPT !.reply = reply, !.data = data]}]

\* getProviderServiceRequests answers the list request of a provider's page
\* with the provider's documents as the store holds them at that instant
listServed(m) ==
    /\ page.kind \in ProviderOrders \cup ProviderRequests
    /\ m \in page.net /\ m.method = "GET" /\ m.reply = ""
    /\ \E sorted \in SortNewestFirst(FindByProvider(PageUser(page.kind))) :
          page' = Answer(m, "ok", [k \in 1..Len(sorted) |-> Populate(requests[sorted[k]])])
    /\ UNCHANGED <<requests, services, history, updating, now, req, res>>

\* ServiceRequest.find({ customer }): the customer's documents, as the
\* specification describes the customer's list
FindByCustomer(customerId) ==
    { i \in 1..Len(requests) : requests[i].customer = customerId }

\* The list request of the customer's page.  The controller has no handler for
\* it: as the code stands the request is answered 404, which is failed(m).
\* This step is the answer the specification describes, and the page expects:
\* the customer's documents, newest first.
customerListServed(m) ==
    /\ page.kind \in CustomerOrders
    /\ m \in page.net /\ m.method = "GET" /\ m.reply = ""
    /\ \E sorted \in SortNewestFirst(FindByCustomer(PageUser(page.kind))) :
          page' = Answer(m, "ok", [k \in 1..Len(sorted) |-> Populate(requests[sorted[k]])])
    /\ UNCHANGED <<requests, services, history, updating, now, req, res>>

\* a request that gets no success response (the network fails, or the server
\* answers with an error status, as it does for a route it does not serve):
\* axios throws
failed(m) ==
    /\ m \in page.net /\ m.reply = ""
    /\ page' = Answer(m, "error", << >>)
    /\ UNCHANGED <<requests, services, history, updating, now, req, res>>

\* a 2xx response to a list request whose data.serviceRequests is no array
malformed(m) ==
    /\ m \in page.net /\ m.method = "GET" /\ m.reply = ""
    /\ page' = Answer(m, "malformed", << >>)
    /\ UNCHANGED <<requests, services, history, updating, now, req, res>>

\* the rest of fetchOrders / fetchRequests: the array of the response, or []
\* for a response without one and for a thrown error; finally loading ends
AfterGet(p, m) ==
    IF m.reply = "ok"
    THEN [Stored(p, m.data) EXCEPT !.loading = FALSE]
    ELSE [Stored(p, << >>) EXCEPT !.loading = FALSE]

fetched(m) ==
    /\ m \in page.net /\ m.method = "GET" /\ m.reply # ""
    /\ LET p == AfterGet([page EXCEPT !.net = page.net \ {m}], m)
       IN  page' = [p EXCEPT !.last = Step("fetched", m.n, 0),
                             !.fresh = IF m.n > page.fresh.n
                                       THEN [n |-> m.n, list |-> p.list]
                                       ELSE page.fresh]
    /\ UNCHANGED <<requests, services, history, updating, now, req, res>>

\* prevOrders.map(o => o._id === orderId ? { ...o, status } : o)
WithStatus(list, id, status) ==
    [k \in 1..Len(list) |->
        IF list[k]._id = id THEN [list[k] EXCEPT !.status = status] ELSE list[k]]

\* prev.filter(keep)
RECURSIVE Filter(_, _)
Filter(list, kept) ==
    IF list = << >> THEN << >>
    ELSE IF Head(list)._id \in kept THEN <<Head(list)>> \o Filter(Tail(list), kept)
    ELSE Filter(Tail(list), kept)

\* the ids of the documents a page holds
Held(list) == { list[k]._id : k \in 1..Len(list) }

\* activeTab filter of the customer's Orders page
filteredOrders(orders, activeTab) ==
    Filter(orders,
           { orders[k]._id : k \in { j \in 1..Len(orders) :
               IF activeTab = "new"
               THEN orders[j].status = "accepted" \/ orders[j].status = "in-progress"
                    \/ orders[j].status = "completed"
               ELSE orders[j].status = "PaymentCompleted"
                    \/ orders[j].status = "rejected" } })

\* activeTab filter of the provider's Orders pages
filteredProviderOrders(orders, activeTab) ==
    Filter(orders,
           { orders[k]._id : k \in { j \in 1..Len(orders) :
               IF activeTab = "new"
               THEN orders[j].status = "accepted" \/ orders[j].status = "in-progress"
               ELSE orders[j].status = "completed" \/ orders[j].status = "cancelled"
                    \/ orders[j].status = "rejected" } })

\* the cards an Orders page draws under a tab
Cards(kind, orders, activeTab) ==
    IF kind \in CustomerOrders THEN filteredOrders(orders, activeTab)
    ELSE filteredProviderOrders(orders, activeTab)

\* the orders or requests that have a card on the page: none while the
\* spinner is drawn; on a Requests page every request of the list; on an
\* Orders page the orders that filteredOrders keeps under the active tab
Drawn(p) ==
    IF p.loading THEN {}
    ELSE IF p.kind \in ProviderRequests THEN Held(p.list)
    ELSE UNION { Held(Cards(p.kind, p.list, activeTab)) : activeTab \in {"new", "history"} }

\* handleViewDetails(order) of the Orders pages, the customer's and the
\* provider's, the callback of the cards of filteredOrders: the details of an
\* order that has a card are opened
handleViewDetails(orderId) ==
    /\ page.kind \in CustomerOrders \cup ProviderOrders
    /\ orderId \in Drawn(page)
    /\ page' = [page EXCEPT !.selectedOrder = orderId,
                            !.last = Step("handleViewDetails", 0, orderId)]
    /\ UNCHANGED <<requests, services, history, updating, now, req, res>>

\* handleCloseDetails() of the Orders pages, the callback of the open details
handleCloseDetails ==
    /\ page.kind \in CustomerOrders \cup ProviderOrders
    /\ page.selectedOrder # 0
    /\ page' = [page EXCEPT !.selectedOrder = 0,
                            !.last = Step("handleCloseDetails", 0, 0)]
    /\ UNCHANGED <<requests, services, history, updating, now, req, res>>

\* handlePaymentSuccess(orderId) of the customer's page, the callback of the
\* details that are open (they stay open whatever becomes of the list): the
\* order, if the list holds it, is marked PaymentCompleted in the list at once,
\* then fetchOrders() is called
handlePaymentSuccess(orderId) ==
    /\ page.kind \in CustomerOrders
    /\ page.selectedOrder = orderId
    /\ MaySend
    /\ page' = Fetch(Stored(page, WithStatus(page.list, orderId, "PaymentCompleted")),
                     "handlePaymentSuccess", orderId)
    /\ UNCHANGED <<requests, services, history, updating, now, req, res>>

\* the outcome of a PATCH at the server: the checks of
\* updateServiceRequestStatus, in their order
PatchCode(requestId, newStatus, providerId) ==
    IF FalsyStr(newStatus) \/ newStatus \notin allowedStatusesByProvider THEN 400
    ELSE IF FindById(requestId) = {} THEN 404
    ELSE LET serviceRequest == CHOOSE d \in FindById(requestId) : TRUE
         IN  IF NotAssignedProvider(serviceRequest, providerId) THEN 403
             ELSE IF ~isValidTransition(serviceRequest.status, newStatus) THEN 400
             ELSE 200

\* updateServiceRequestStatus for a PATCH of the page, up to its await of
\* save(): the document is read and checked.  A call that fails is answered
\* with an error status, which axios throws; one that passes waits to save.
\* The answer travels in the message.
patchServed(m) ==
    /\ m \in page.net /\ m.method = "PATCH" /\ m.reply = ""
    /\ page' = Answer(m, IF PatchCode(m.id, m.status, PageUser(page.kind)) = 200
                         THEN "saving" ELSE "error", << >>)
    /\ UNCHANGED <<requests, services, history, updating, now, req, res>>

\* serviceRequest.status = newStatus; await serviceRequest.save(); 200: the
\* status is written, whatever the document holds by now
patchSaved(m) ==
    /\ m \in page.net /\ m.method = "PATCH" /\ m.reply = "saving"
    /\ requests' = [requests EXCEPT ![m.id].status = m.status]
    /\ page' = Answer(m, "success", << >>)
    /\ UNCHANGED <<services, updating, now, req, res>>
    /\ Logged

\* the statuses the cards of the provider's Orders page ask for
CardStatusValues == {"in-progress", "completed"}

\* handleUpdateStatus(orderId, newStatus) of the provider's Orders page, the
\* callback of the cards, up to the await: nothing without a token; else the
\* PATCH leaves.  The handler
\* belongs to the render that made it: `orders` in it is the list of that
\* render.
handleUpdateStatus(orderId, newStatus) ==
    /\ page.kind \in ProviderOrders
    /\ orderId \in Drawn(page)
    /\ MaySend
    /\ page' = IF ~page.token
               THEN [page EXCEPT !.last = Step("handleUpdateStatus", 0, orderId)]
               ELSE [page EXCEPT
                       !.issued = page.issued + 1,
                       !.net = page.net \cup {Message(page.issued + 1, "PATCH", orderId,
                                                     newStatus, page.list)},
                       !.last = Step("handleUpdateStatus", page.issued + 1, orderId)]
    /\ UNCHANGED <<requests, services, history, updating, now, req, res>>

\* the rest of handleUpdateStatus: setOrders(orders.map(...)) with the list of
\* the closure when the PATCH succeeded; the list is left alone when it threw
statusUpdated(m) ==
    /\ page.kind \in ProviderOrders
    /\ m \in page.net /\ m.method = "PATCH" /\ m.reply \in {"success", "error"}
    /\ LET p == [page EXCEPT !.net = page.net \ {m},
                             !.last = Step("statusUpdated", m.n, m.id)]
       IN  page' = IF m.reply = "success"
                   THEN Stored(p, WithStatus(m.closure, m.id, m.status))
                   ELSE p
    /\ UNCHANGED <<requests, services, history, updating, now, req, res>>

\* handleAccept(requestId) of the Requests page, the callback of the cards, up
\* to the await
handleAccept(requestId) ==
    /\ page.kind \in ProviderRequests
    /\ requestId \in Drawn(page)
    /\ MaySend
    /\ page' = IF ~page.token
               THEN [page EXCEPT !.last = Step("handleAccept", 0, requestId)]
               ELSE [page EXCEPT
                       !.issued = page.issued + 1,
                       !.net = page.net \cup {Message(page.issued + 1, "PATCH", requestId,
                                                     "accepted", << >>)},
                       !.last = Step("handleAccept", page.issued + 1, requestId)]
    /\ UNCHANGED <<requests, services, history, updating, now, req, res>>

\* faulty variant: the accepted request stays in the list
Accepted_kept(prevRequests, requestId) == WithStatus(prevRequests, requestId, "accepted")

\* prevRequests.map(req => req._id === requestId ? { ...req, status: 'accepted' }
\* : req).filter(req => req.status === 'pending')
Accepted(prevRequests, requestId) ==
    LET mapped == WithStatus(prevRequests, requestId, "accepted")
    IN  Filter(mapped, { mapped[k]._id : k \in { j \in 1..Len(mapped) :
                                                  mapped[j].status = "pending" } })

\* window.confirm('Are you sure you want to reject this request?')
Confirms(confirmed) == confirmed

\* handleReject(requestId) of the Requests page, the callback of the cards, up
\* to the await; `confirmed` is
\* the user's answer to window.confirm
handleReject(requestId, confirmed) ==
    /\ page.kind \in ProviderRequests
    /\ requestId \in Drawn(page)
    /\ MaySend
    /\ LET name == IF confirmed THEN "handleReject" ELSE "handleReject, declined"
       IN  page' = IF ~page.token \/ ~Confirms(confirmed)
                   THEN [page EXCEPT !.last = Step(name, 0, requestId)]
                   ELSE [page EXCEPT
                           !.issued = page.issued + 1,
                           !.net = page.net \cup {Message(page.issued + 1, "PATCH",
                                                         requestId, "rejected", << >>)},
                           !.last = Step(name, page.issued + 1, requestId)]
    /\ UNCHANGED <<requests, services, history, updating, now, req, res>>

\* prevRequests.filter(request => request._id !== requestId)
Rejected(prevRequests, requestId) ==
    Filter(prevRequests, Held(prevRequests) \ {requestId})

\* the rest of handleAccept and of handleReject: on success the functional
\* update of the list as it is now; otherwise only a toast
answered(m) ==
    /\ page.kind \in ProviderRequests
    /\ m \in page.net /\ m.method = "PATCH" /\ m.reply \in {"success", "error"}
    /\ LET p == [page EXCEPT !.net = page.net \ {m},
                             !.last = Step(IF m.status = "accepted" THEN "accepted"
                                           ELSE "rejected", m.n, m.id)]
       IN  page' = IF m.reply = "success"
                   THEN Stored(p, IF m.status = "accepted"
                                  THEN Accepted(page.list, m.id)
                                  ELSE Rejected(page.list, m.id))
                   ELSE p
    /\ UNCHANGED <<requests, services, history, updating, now, req, res>>

----------------------------------------------------------------------------
(* SpecPages: one page, open with or without a token, over a store of two   *)
(* bookings of c1 with p1                                                   *)

\* the statuses of the two documents when the page opens
StartStatuses == { <<"pending", "completed">>, <<"accepted", "in-progress">> }

StartStore(statuses) ==
    [ i \in 1..2 |->
        [ NewServiceRequest(i, CHOOSE u \in User : u._id = "c1",
                            Booking(CHOOSE v \in Service : v._id = "s1",
                                    DateSlot(MaxTime + 1)),
                            CHOOSE v \in Service : v._id = "s1",
                            MaxTime + 1, i - 1)
          EXCEPT !.status = statuses[i] ] ]

InitPages ==
    /\ \E statuses \in StartStatuses : requests = StartStore(statuses)
    /\ services = Service
    /\ history = [on |-> FALSE, log |-> << >>]
    /\ updating = [s \in Sessions |-> Idle]
    /\ now = 0
    /\ req = NoReq
    /\ res = NoRes
    /\ \E kind \in Pages, token \in BOOLEAN :
          page = [NoPage EXCEPT !.kind = kind, !.token = token, !.due = TRUE]

NextPages ==
    \/ logout
    \/ fetchOrders
    \/ fetchRequests
    \/ \E m \in page.net : listServed(m)
    \/ \E m \in page.net : customerListServed(m)
    \/ \E m \in page.net : malformed(m)
    \/ \E m \in page.net : failed(m)
    \/ \E m \in page.net : fetched(m)
    \/ \E orderId \in 1..Len(requests) : handleViewDetails(orderId)
    \/ handleCloseDetails
    \/ \E orderId \in 1..Len(requests) : handlePaymentSuccess(orderId)
    \/ \E orderId \in 1..Len(requests), newStatus \in CardStatusValues :
          handleUpdateStatus(orderId, newStatus)
    \/ \E m \in page.net : patchServed(m)
    \/ \E m \in page.net : patchSaved(m)
    \/ \E m \in page.net : statusUpdated(m)
    \/ \E requestId \in 1..Len(requests) : handleAccept(requestId)
    \/ \E requestId \in 1..Len(requests), confirmed \in BOOLEAN :
          handleReject(requestId, confirmed)
    \/ \E m \in page.net : answered(m)
    \/ \E requestId \in 1..Len(requests) : paymentCompleted(requestId)

SpecPages == InitPages /\ [][NextPages]_vars

----------------------------------------------------------------------------
(* What the specification says, in its own terms *)

\* the transition table of the specification, section 4.1
ProviderEdges ==
    { <<"pending", "accepted">>, <<"pending", "rejected">>,
      <<"accepted", "in-progress">>, <<"in-progress", "completed">> }
TransitionTable == ProviderEdges \cup { <<"completed", "PaymentCompleted">> }

\* this step answered a request
Answered == <<req, res>>' # <<req, res>>

\* the answered PATCH named a stored document, and its provider sent it (or not)
PatchOfRecord == req.op = "update" /\ req.stored # "" /\ req.id \in 1..Len(requests)
ByOwner == requests[req.id].provider = req.user

----------------------------------------------------------------------------
(* C1..C5: updateServiceRequestStatus, under Spec *)

\* C1: a PATCH by the owning provider whose (stored, requested) pair is no edge
\* of the transition table is answered 400, and the step that answers it leaves
\* the store as it was.
C1_NonEdgeRejected ==
    [][ (Answered /\ PatchOfRecord' /\ ByOwner'
          /\ <<req'.stored, req'.status>> \notin TransitionTable)
        => (res'.code = 400 /\ requests' = requests) ]_vars

\* C1 happens: the owner's accepted -> accepted is refused, the record still accepted
C1_Witness ==
    /\ PatchOfRecord /\ ByOwner
    /\ req.stored = "accepted" /\ req.status = "accepted"
    /\ res.code = 400
    /\ requests[req.id].status = "accepted"

\* C2: a PATCH by the owning provider along one of the four provider edges, read
\* while the record holds the edge's source, is not refused: it goes on to
\* save(), is answered 200, and the stored status is then the requested one.
C2_EdgeSucceeds ==
    [][ /\ \A s \in Sessions, requestId \in 1..Len(requests) :
             \A newStatus \in { st \in StatusValues :
                                  <<requests[requestId].status, st>> \in ProviderEdges } :
               updateServiceRequestStatus(s, requestId, newStatus,
                                          requests[requestId].provider)
               => (updating'[s].pc = "save" /\ updating'[s].status = newStatus
                   /\ updating'[s].id = requestId)
        /\ (Answered /\ PatchOfRecord' /\ ByOwner'
             /\ <<req'.stored, req'.status>> \in ProviderEdges)
           => (res'.code = 200 /\ requests'[req'.id].status = req'.status) ]_vars

\* C2 happens: in-progress -> completed went through
C2_Witness ==
    /\ PatchOfRecord /\ ByOwner
    /\ req.stored = "in-progress" /\ req.status = "completed"
    /\ res.code = 200
    /\ requests[req.id].status = "completed"

\* C3, as claimed: every PATCH for a stored record by a provider who is not the
\* record's provider is answered 403, whatever status it asks for.
C3_Original == (PatchOfRecord /\ ~ByOwner) => res.code = 403

\* C3, amended: every PATCH for a stored record that asks for a status of the
\* provider-settable set, by a provider who is not the record's provider, is
\* answered 403, whether or not the pair is an edge of the table.
C3_ForeignProviderForbidden ==
    (PatchOfRecord /\ ~ByOwner
       /\ req.status \in {"accepted", "rejected", "in-progress", "completed"})
    => res.code = 403

\* C3 happens: another provider asks for the valid edge pending -> accepted
C3_Witness ==
    /\ PatchOfRecord /\ ~ByOwner
    /\ req.stored = "pending" /\ req.status = "accepted"
    /\ res.code = 403

\* C4: no step removes a record or changes any field of a record but status, and
\* a step that changes a record's status is either the save() of a PATCH sent
\* by the record's provider or the payment event's completed -> PaymentCompleted.
C4_OnlyOwnerMutates ==
    [][ /\ Len(requests') >= Len(requests)
        /\ \A i \in 1..Len(requests) :
             /\ [requests'[i] EXCEPT !.status = requests[i].status] = requests[i]
             /\ requests'[i].status # requests[i].status
                => \/ \E s \in Sessions :
                        /\ updating[s].pc = "save" /\ updating'[s] = Idle
                        /\ updating[s].id = i
                        /\ updating[s].providerId = requests[i].provider
                        /\ updating[s].status = requests'[i].status
                        /\ req'.op = "update" /\ req'.user = requests[i].provider
                        /\ res'.code = 200
                   \/ /\ requests[i].status = "completed"
                      /\ requests'[i].status = "PaymentCompleted"
                      /\ UNCHANGED <<req, res>> ]_vars

\* C4 happens: the record has moved on under its provider, and another
\* provider's PATCH has just been refused
C4_Witness ==
    /\ PatchOfRecord /\ ~ByOwner
    /\ res.code = 403
    /\ requests[req.id].status = "in-progress"

\* C5, as claimed: once a record is rejected or PaymentCompleted, it keeps that
\* status in every later state.
C5_TerminalStays ==
    [][ \A i \in 1..Len(requests) :
          requests[i].status \in {"rejected", "PaymentCompleted"}
          => requests'[i].status = requests[i].status ]_vars

----------------------------------------------------------------------------
(* C6..C10: createServiceRequest, under SpecCreate *)

\* the users and listings of the fixture, as the claims speak of them
IsProviderId(id) == id \in {"p1", "p2"}
ListingOf(name, providerId) ==
    IF name = "Haircut" /\ providerId = "p1" THEN "s1"
    ELSE IF name = "Massage" /\ providerId = "p2" THEN "s2"
    ELSE IF name = "Massage" /\ providerId = "c1" THEN "s3"
    ELSE ""

\* the answered POST carries providerId, serviceName, servicePrice,
\* customerAddress and time_slot
CarriesRequired ==
    /\ req.body.providerId # "" /\ req.body.serviceName # ""
    /\ req.body.servicePrice # 0 /\ req.body.customerAddress # ""
    /\ req.body.time_slot.kind # "missing"

\* the answered POST asks for an instant before the clock the handler read
PastSlot ==
    req.op = "create" /\ req.body.time_slot.kind = "date"
    /\ req.body.time_slot.ms < req.date

Resolves ==
    /\ IsProviderId(req.body.providerId)
    /\ ListingOf(req.body.serviceName, req.body.providerId) # ""

\* C6, as claimed: a POST for a slot in the past is answered 400 and persists no
\* record, whatever provider id and service name it carries.
C6_Original == PastSlot => (res.code = 400 /\ Len(requests) = req.count)

\* C6, amended: a POST for a slot in the past fails and persists no record,
\* whatever provider id and service name it carries; it is answered 404 when it
\* carries the required fields and its provider id or service name does not
\* resolve, and 400 otherwise.
C6_PastSlotFails ==
    PastSlot =>
      /\ Len(requests) = req.count
      /\ res.code = (IF CarriesRequired /\ ~Resolves THEN 404 ELSE 400)

\* C6 happens: a well-formed booking of a listed service for a past slot
C6_Witness ==
    /\ PastSlot /\ CarriesRequired /\ Resolves
    /\ res.code = 400 /\ requests = << >>

\* C7: a POST that carries the required fields and a providerId that is no
\* provider's is answered 404 and persists no record.
C7_UnknownProviderNotFound ==
    (req.op = "create" /\ CarriesRequired /\ ~IsProviderId(req.body.providerId))
    => (res.code = 404 /\ Len(requests) = req.count)

\* C7 happens: a customer's id as providerId, for a listing that names that
\* customer, and a slot not in the past
C7_Witness ==
    /\ req.op = "create" /\ CarriesRequired
    /\ req.body.providerId = "c1" /\ req.body.serviceName = "Massage"
    /\ req.body.time_slot.kind = "date" /\ req.body.time_slot.ms >= req.date
    /\ res.code = 404 /\ requests = << >>

\* C8, as claimed: a POST for a provider with a service name that provider does
\* not list is answered 404 and persists no record.
C8_Original ==
    ( /\ req.op = "create" /\ IsProviderId(req.body.providerId)
      /\ req.body.serviceName # ""
      /\ ListingOf(req.body.serviceName, req.body.providerId) = "" )
    => (res.code = 404 /\ Len(requests) = req.count)

\* C8, amended: a POST that carries the required fields, for a provider, with a
\* service name that provider does not list, is answered 404 and persists no
\* record, also when another provider lists a service of that name.
C8_UnlistedServiceNotFound ==
    ( /\ req.op = "create" /\ CarriesRequired
      /\ IsProviderId(req.body.providerId)
      /\ ListingOf(req.body.serviceName, req.body.providerId) = "" )
    => (res.code = 404 /\ Len(requests) = req.count)

\* C8 happens: p1 asked for the massage that only p2 and c1 list
C8_Witness ==
    /\ req.op = "create" /\ CarriesRequired
    /\ req.body.providerId = "p1" /\ req.body.serviceName = "Massage"
    /\ req.body.time_slot.kind = "date" /\ req.body.time_slot.ms >= req.date
    /\ res.code = 404 /\ requests = << >>

\* C9: the store grows only by a POST answered 201, and a POST answered 201
\* appends exactly one record: pending, its customer the authenticated user,
\* its provider the body's providerId, its service the listing of (serviceName,
\* providerId); the records already stored stay as they were.
C9_CreatedPending ==
    [][ /\ (Answered /\ req'.op = "create" /\ res'.code = 201)
           => Len(requests') = Len(requests) + 1
        /\ Len(requests') # Len(requests)
           => /\ req'.op = "create" /\ res'.code = 201
              /\ Len(requests') = Len(requests) + 1
              /\ SubSeq(requests', 1, Len(requests)) = requests
              /\ LET r == requests'[Len(requests')]
                 IN  /\ r.status = "pending"
                     /\ r.customer = req'.user
                     /\ r.provider = req'.body.providerId
                     /\ r.service = ListingOf(req'.body.serviceName,
                                              req'.body.providerId)
                     /\ r.service # "" ]_vars

\* C9 happens: c2 has booked p2's massage
C9_Witness ==
    /\ req.op = "create" /\ res.code = 201 /\ req.user = "c2"
    /\ Len(requests) = 1
    /\ requests[1].customer = "c2" /\ requests[1].provider = "p2"
    /\ requests[1].service = "s2" /\ requests[1].status = "pending"

\* C10, as claimed: every stored record has time_slot > createdAt, and a POST
\* whose slot is the very instant the handler reads is answered 400.
C10_Original ==
    /\ \A i \in 1..Len(requests) : requests[i].time_slot > requests[i].createdAt
    /\ ( req.op = "create" /\ req.body.time_slot.kind = "date"
         /\ req.body.time_slot.ms = req.date ) => res.code = 400

\* C10, amended: a well-formed POST of a listed service is answered 400 when its
\* slot is before the instant the handler reads and 201 when it is that instant
\* or later; the record it persists has time_slot and createdAt both at or
\* after that instant, in either order.
C10_SlotNotBeforeCheck ==
    /\ (req.op = "create" /\ CarriesRequired /\ Resolves
         /\ req.body.time_slot.kind = "date")
       => res.code = (IF req.body.time_slot.ms < req.date THEN 400 ELSE 201)
    /\ (req.op = "create" /\ res.code = 201)
       => /\ requests[Len(requests)].time_slot = req.body.time_slot.ms
          /\ requests[Len(requests)].time_slot >= req.date
          /\ requests[Len(requests)].createdAt >= req.date

\* C10 happens: a slot equal to the instant read was accepted and the record was
\* stamped a tick later
C10_Witness ==
    /\ req.op = "create" /\ res.code = 201
    /\ req.body.time_slot.ms = req.date
    /\ requests[1].time_slot < requests[1].createdAt

----------------------------------------------------------------------------
(* C11..C15: updateServiceRequestStatus, under Spec *)

\* the statuses the specification lets a provider ask for
ProviderSettable == {"accepted", "rejected", "in-progress", "completed"}

\* C11, as claimed: a PATCH that asks for a status outside the provider-settable
\* set is answered 400 in a step that leaves the store as it was; no PATCH ever
\* stores PaymentCompleted or pending; and a record leaves completed only by the
\* payment event, to PaymentCompleted.
C11_OnlySettableStored ==
    [][ /\ (Answered /\ req'.op = "update" /\ req'.status \notin ProviderSettable)
           => (res'.code = 400 /\ requests' = requests)
        /\ \A i \in 1..Len(requests) :
             /\ ( requests'[i].status # requests[i].status
                  /\ requests'[i].status \in {"pending", "PaymentCompleted"} )
                => UNCHANGED <<updating, req, res>>
             /\ ( requests[i].status = "completed"
                  /\ requests'[i].status # "completed" )
                => ( requests'[i].status = "PaymentCompleted"
                     /\ UNCHANGED <<updating, req, res>> ) ]_vars

\* C12, as claimed: a PATCH for an id that names no stored record is answered
\* 404, whatever status it asks for and whichever provider sends it, and the
\* store is left as it was.
C12_Original ==
    [][ (Answered /\ req'.op = "update" /\ req'.id \notin 1..Len(requests))
        => (res'.code = 404 /\ requests' = requests) ]_vars

\* C12, amended: a PATCH for an id that names no stored record leaves the store
\* as it was, whichever provider sends it; it is answered 404 when it asks for a
\* provider-settable status and 400 when it asks for any other.
C12_UnknownIdNotFound ==
    [][ (Answered /\ req'.op = "update" /\ req'.id \notin 1..Len(requests))
        => /\ res'.code = (IF req'.status \in ProviderSettable THEN 404 ELSE 400)
           /\ requests' = requests ]_vars

\* C12 happens: a record is stored, and p2's PATCH for another id was not found
C12_Witness ==
    /\ req.op = "update" /\ req.id \notin 1..Len(requests)
    /\ req.user = "p2" /\ req.status = "accepted"
    /\ res.code = 404
    /\ Len(requests) = 1 /\ requests[1].provider = "p2"

\* C13: a call that has read the record and passed the checks can always save,
\* whatever the record holds by then and whatever other call is waiting; its
\* save is answered 200, stores the status it asked for, and leaves every other
\* waiting call waiting.  So of two calls that both read before either saves,
\* both succeed and the stored status is that of the later save.
C13_LastSaveWins ==
    [][ \A s \in Sessions :
          /\ updating[s].pc = "save" => ENABLED save(s)
          /\ (updating[s].pc = "save" /\ updating'[s] # updating[s])
             => /\ updating'[s] = Idle
                /\ res'.code = 200
                /\ req'.op = "update" /\ req'.id = updating[s].id
                /\ req'.status = updating[s].status
                /\ req'.stored = updating[s].currentStatus
                /\ requests'[updating[s].id].status = updating[s].status
                /\ \A t \in Sessions \ {s} : updating'[t] = updating[t] ]_vars

\* C13 happens: two calls of p1 read record 1 as pending; the one that asked for
\* rejected has saved and was answered 200, the one that asked for accepted is
\* still to save
C13_Witness ==
    /\ req.op = "update" /\ req.id = 1 /\ req.user = "p1"
    /\ req.stored = "pending" /\ req.status = "rejected"
    /\ res.code = 200
    /\ Len(requests) = 1 /\ requests[1].status = "rejected"
    /\ \E t \in Sessions :
         /\ updating[t].pc = "save" /\ updating[t].id = 1
         /\ updating[t].providerId = "p1"
         /\ updating[t].currentStatus = "pending"
         /\ updating[t].status = "accepted"

\* the lifecycle order of the specification
Rank(status) ==
    CASE status = "pending"          -> 1
      [] status = "accepted"         -> 2
      [] status = "in-progress"      -> 3
      [] status = "completed"        -> 4
      [] status = "PaymentCompleted" -> 5
      [] OTHER                       -> 0

\* C14, as claimed: no step takes the stored status of a record to an earlier
\* status of the order pending < accepted < in-progress < completed <
\* PaymentCompleted, and no save() writes the status the record already holds.
C14_NeverBackward ==
    [][ \A i \in 1..Len(requests) :
          /\ (Rank(requests[i].status) > 0 /\ Rank(requests'[i].status) > 0)
             => Rank(requests'[i].status) >= Rank(requests[i].status)
          /\ \A s \in Sessions :
               (updating[s].pc = "save" /\ updating'[s] = Idle /\ updating[s].id = i)
               => updating[s].status # requests[i].status ]_vars

\* C15: a step of a PATCH call, the read that decides or the save, adds and
\* removes no record and changes no field of any record but status; a call that
\* is refused, and the read of a call that goes on to save, change nothing in
\* the store; a save changes the record it was sent for and no other.  This
\* holds whatever the Service collection holds by then.
C15_OnlyStatusChanges ==
    [][ (updating' # updating \/ (Answered /\ req'.op = "update"))
        => /\ Len(requests') = Len(requests)
           /\ \A i \in 1..Len(requests) :
                /\ [requests'[i] EXCEPT !.status = requests[i].status] = requests[i]
                /\ requests'[i] # requests[i]
                   => \E s \in Sessions :
                        /\ updating[s].pc = "save" /\ updating'[s] = Idle
                        /\ updating[s].id = i
           /\ (\A s \in Sessions : updating[s].pc = "save" => updating'[s] = updating[s])
              => requests' = requests ]_vars

\* C15 happens: the haircut was renamed and repriced after c1 booked it; p1 has
\* accepted that booking, which keeps the name and the price it was booked at,
\* and c2's booking stands as it was made
C15_Witness ==
    /\ Len(requests) = 2
    /\ req.op = "update" /\ req.id = 1 /\ req.stored = "pending" /\ res.code = 200
    /\ requests[1].status = "accepted" /\ requests[1].service = "s1"
    /\ requests[1].serviceNameSnapshot = "Haircut"
    /\ requests[1].servicePriceSnapshot = 10
    /\ \E v \in services : v._id = "s1" /\ v.name = "Trim" /\ v.price = 15
    /\ requests[2].status = "pending" /\ requests[2].customer = "c2"
    /\ requests[2].createdAt > requests[1].createdAt

----------------------------------------------------------------------------
(* C16: the snapshots of createServiceRequest, under SpecCreate *)

\* C16, as claimed: the record a POST inserts carries, as serviceNameSnapshot
\* and servicePriceSnapshot, the name and the price that the Service document it
\* refers to holds at that instant.
C16_SnapshotOfService ==
    [][ Len(requests') = Len(requests) + 1
        => LET r == requests'[Len(requests')]
           IN  \E v \in services :
                 /\ v._id = r.service
                 /\ r.serviceNameSnapshot = v.name
                 /\ r.servicePriceSnapshot = v.price ]_vars

----------------------------------------------------------------------------
(* C17..C20: the listing and the store, under SpecStore *)

\* a list response for providerId that is right for the store as it is: success,
\* one entry for each record of that provider and no other entry, each entry
\* the record it stands for, later createdAt before earlier
ListsExactly(providerId, response) ==
    /\ response.code = 200
    /\ response.results = Len(response.data)
    /\ \A k \in 1..Len(response.data) :
         /\ response.data[k]._id \in 1..Len(requests)
         /\ response.data[k].provider = providerId
         /\ LET r == requests[response.data[k]._id]
            IN  [response.data[k] EXCEPT !.customer = r.customer,
                                         !.service = r.service] = r
    /\ \A i \in 1..Len(requests) :
         requests[i].provider = providerId
         => \E k \in 1..Len(response.data) : response.data[k]._id = i
    /\ \A j, k \in 1..Len(response.data) :
         /\ j # k => response.data[j]._id # response.data[k]._id
         /\ j < k => response.data[j].createdAt >= response.data[k].createdAt

\* C17: in every state, for every provider, the list request is answered, and
\* every answer it can get is success with exactly the records of that provider,
\* whatever their status, newest first; the empty list if there is none.
C17_ListOfProvider ==
    \A providerId \in Providers :
      /\ ENABLED getProviderServiceRequests(providerId)
      /\ ~ ENABLED ( getProviderServiceRequests(providerId)
                     /\ ~ListsExactly(providerId, res') )

\* C17 happens: p1 was sent its two records, the later booking first, the
\* earlier one, by then accepted, second
C17_Witness ==
    /\ req.op = "list" /\ req.user = "p1" /\ res.code = 200
    /\ Len(requests) = 2 /\ Len(res.data) = 2
    /\ res.data[1]._id = 2 /\ res.data[2]._id = 1
    /\ res.data[1].createdAt > res.data[2].createdAt
    /\ res.data[1].status = "pending" /\ res.data[2].status = "accepted"
    /\ requests[1].status = "accepted"

\* C18, as claimed: the list request of a customer is answered with success and
\* exactly the stored records of that customer, newest first.
C18_ListOfCustomer ==
    [][ (Answered /\ req'.op = "listOfCustomer")
        => /\ res'.code = 200
           /\ \A k \in 1..Len(res'.data) :
                /\ res'.data[k]._id \in 1..Len(requests)
                /\ requests[res'.data[k]._id].customer = req'.user
           /\ \A i \in 1..Len(requests) :
                requests[i].customer = req'.user
                => \E k \in 1..Len(res'.data) : res'.data[k]._id = i
           /\ \A j, k \in 1..Len(res'.data) :
                /\ j # k => res'.data[j]._id # res'.data[k]._id
                /\ j < k => res'.data[j].createdAt >= res'.data[k].createdAt ]_vars

\* what the calls that may be made or finished next would get: the bookings
\* that would be stored; the PATCH calls of a record by its provider that would
\* go on to save() (the others are refused); for each waiting call the status
\* its save would store
CreateOutcomes ==
    { booking \in Bookings :
        ENABLED ( (\E date \in 0..now, catalogue \in Catalogues :
                     createServiceRequest(booking[1], booking[2], date, catalogue))
                  /\ res'.code = 201 /\ Len(requests') = Len(requests) + 1 ) }
PatchOutcomes ==
    { call \in Sessions \X (1..Len(requests)) \X ProviderSettable :
        ENABLED ( updateServiceRequestStatus(call[1], call[2], call[3],
                                             requests[call[2]].provider)
                  /\ updating'[call[1]].pc = "save" ) }
SaveOutcomes ==
    { call \in Sessions \X ProviderSettable :
        ENABLED ( save(call[1]) /\ res'.code = 200
                  /\ requests'[updating[call[1]].id].status = call[2] ) }

\* C19: a list request leaves the store, the listings, the clock and every
\* waiting PATCH as they were, and what any booking, any PATCH and any waiting
\* save would get is the same after it as before it.
C19_ListIsPureRead ==
    [][ (Answered /\ req'.op = "list")
        => /\ UNCHANGED <<page, requests, services, history, updating, now>>
           /\ CreateOutcomes' = CreateOutcomes
           /\ PatchOutcomes' = PatchOutcomes
           /\ SaveOutcomes' = SaveOutcomes ]_vars

\* C19 happens: p1 was sent its list, with the record still pending, while two
\* of its PATCH calls for that record were between their read and their save
C19_Witness ==
    /\ req.op = "list" /\ req.user = "p1" /\ res.code = 200
    /\ Len(res.data) = 1 /\ res.data[1].status = "pending"
    /\ Len(requests) = 1 /\ requests[1].status = "pending"
    /\ updating["a"].pc = "save" /\ updating["a"].status = "accepted"
    /\ updating["b"].pc = "save" /\ updating["b"].status = "rejected"

\* C20: no step removes a record: every record of the store is in the store
\* after the step, under the same _id and with the same customer and the same
\* provider, and no two records share an _id.
C20_NeverDeleted ==
    [][ /\ Len(requests') >= Len(requests)
        /\ \A i \in 1..Len(requests) :
             \E j \in 1..Len(requests') :
               /\ requests'[j]._id = requests[i]._id
               /\ requests'[j].customer = requests[i].customer
               /\ requests'[j].provider = requests[i].provider
        /\ \A j, k \in 1..Len(requests') :
             j # k => requests'[j]._id # requests'[k]._id ]_vars

\* C20 happens: c1's first booking is still there, by now in progress, after c1
\* has booked the same service again
C20_Witness ==
    /\ Len(requests) = 2
    /\ requests[1]._id = 1 /\ requests[1].customer = "c1"
    /\ requests[1].provider = "p1" /\ requests[1].status = "in-progress"
    /\ requests[2]._id = 2 /\ requests[2].customer = "c1"
    /\ requests[2].status = "pending"
    /\ req.op = "create" /\ res.code = 201

----------------------------------------------------------------------------
(* C21..C23 *)

\* C21: in every state the status of every stored record is one of pending,
\* accepted, rejected, in-progress, completed, PaymentCompleted, whatever the
\* bodies of the POST and PATCH requests received so far.
C21_StatusInDomain ==
    \A i \in 1..Len(requests) :
      requests[i].status \in {"pending", "accepted", "rejected", "in-progress",
                              "completed", "PaymentCompleted"}

\* C21 happens: the record's provider asked for a status that is none of the
\* six, was refused, and the record is still pending
C21_Witness ==
    /\ PatchOfRecord /\ ByOwner
    /\ req.status = "cancelled" /\ req.stored = "pending"
    /\ res.code = 400
    /\ requests[req.id].status = "pending"

\* C22, under SpecHistory: at every moment, a record that has been in-progress
\* has been accepted, and a record that has been completed has been in-progress
\* (so a record that was never accepted has never been completed), however the
\* PATCH calls of its provider interleave; the status it holds is in its log.
C22_OrderInHistory ==
    /\ Len(history.log) = Len(requests)
    /\ \A i \in 1..Len(requests) :
         /\ requests[i].status \in history.log[i]
         /\ "in-progress" \in history.log[i] => "accepted" \in history.log[i]
         /\ "completed" \in history.log[i] => "in-progress" \in history.log[i]

\* C22 happens: a call that read the record as pending saved rejected after the
\* record had been accepted, in progress and completed
C22_Witness ==
    /\ Len(requests) = 1 /\ requests[1].status = "rejected"
    /\ history.log[1] = {"pending", "accepted", "in-progress", "completed",
                         "rejected"}
    /\ req.op = "update" /\ req.stored = "pending" /\ req.status = "rejected"
    /\ res.code = 200

\* C23, under SpecCreate: a POST that lacks providerId, serviceName,
\* servicePrice, customerAddress or time_slot is answered 400 and persists no
\* record, also when its provider or service would not be found; a POST that
\* lacks only nearestPoint, for a listed service and a slot not in the past, is
\* answered 201.
C23_MissingFieldInvalid ==
    /\ (req.op = "create" /\ ~CarriesRequired)
       => (res.code = 400 /\ Len(requests) = req.count)
    /\ ( /\ req.op = "create" /\ CarriesRequired /\ Resolves
         /\ req.body.nearestPoint = ""
         /\ req.body.time_slot.kind = "date"
         /\ req.body.time_slot.ms >= req.date )
       => res.code = 201

\* C23 happens: a POST without time_slot, for a provider id that no user has,
\* was answered 400
C23_Witness ==
    /\ req.op = "create"
    /\ req.body.providerId = "ghost" /\ req.body.time_slot.kind = "missing"
    /\ req.body.serviceName # "" /\ req.body.customerAddress # ""
    /\ res.code = 400 /\ requests = << >>

----------------------------------------------------------------------------
(* The claims about the pages *)

\* the provider's pages that claim C24 is about
SelfFetching == {"part_001/1", "part_001/2", "part_002"}

\* C24, under SpecPages: on the provider's Orders and Requests pages the list
\* effect does not trigger itself: when a fetch has completed and stored its
\* list, the effect is not due again, so no further GET follows from it.
C24_NoRefetch ==
    (page.kind \in SelfFetching /\ page.last.step = "fetched") => ~page.due

\* the list requests of the page that have not completed
FetchesInFlight == { m \in page.net : m.method = "GET" }

\* C25, under SpecPages: on the customer's Orders page, once every list fetch
\* has completed, the list on display is the outcome of the fetch that was
\* issued last: the response to an earlier fetch never replaces that of a later
\* one.
C25_LatestFetchShown ==
    ( /\ page.kind \in CustomerOrders
      /\ page.last.step = "fetched"
      /\ FetchesInFlight = {} )
    => page.list = page.fresh.list

\* the PATCH requests of the page that have not completed
PatchesInFlight == { m \in page.net : m.method = "PATCH" }

\* the step is the continuation, named `name`, of a request of the page
Completes(name) ==
    /\ page'.last.step = name
    /\ page'.last # page.last
    /\ \E m \in page.net : m.n = page'.last.n /\ m.reply \notin {"", "saving"}

\* the reply that the continuation of the step has read
ReplyRead == (CHOOSE m \in page.net : m.n = page'.last.n).reply

\* C26, under SpecPages: on the provider's Orders page the continuation of a
\* status update that succeeded shows the new status for its order and leaves
\* every other order as the list showed it, so that two updates of different
\* orders both show, however they and a list fetch interleave; the
\* continuation of an update that failed leaves the list as it was.
C26_BothUpdatesShown ==
    [][ (page.kind \in ProviderOrders /\ Completes("statusUpdated"))
        => IF ReplyRead = "success"
           THEN /\ Len(page'.list) = Len(page.list)
                /\ \A k \in 1..Len(page.list) :
                      IF page.list[k]._id = page'.last.id
                      THEN page'.list[k].status \in CardStatusValues
                      ELSE page'.list[k] = page.list[k]
           ELSE page'.list = page.list ]_vars

\* C27, under SpecPages: every request in the list of the provider's Requests
\* page has status pending.
C27_OnlyPendingHeld ==
    page.kind \in ProviderRequests
    => \A k \in 1..Len(page.list) : page.list[k].status = "pending"

\* C28, under SpecPages: on the provider's Requests page the continuation of
\* an accept or a reject whose PATCH succeeded leaves a list without the
\* request it was for, and adds nothing to the list; the continuation of one
\* whose PATCH failed leaves the list as it was; a reject that the user does
\* not confirm, like any accept or reject without a token, sends nothing and
\* leaves the list as it was.
C28_AcceptRejectOutcome ==
    [][ /\ ( /\ page.kind \in ProviderRequests
             /\ (Completes("accepted") \/ Completes("rejected")) )
           => IF ReplyRead = "success"
              THEN /\ page'.last.id \notin Held(page'.list)
                   /\ Held(page'.list) \subseteq Held(page.list)
              ELSE page'.list = page.list
        /\ ( /\ page.kind \in ProviderRequests
             /\ page'.last # page.last
             /\ \/ page'.last.step = "handleReject, declined"
                \/ page'.last.step \in {"handleAccept", "handleReject"} /\ ~page.token )
           => /\ page'.net = page.net
              /\ page'.issued = page.issued
              /\ page'.list = page.list ]_vars

\* C28 happens: the reject of request 1 succeeded and request 1 has left the
\* list, in which request 2 stays
C28_Witness ==
    /\ page.kind \in ProviderRequests
    /\ page.last.step = "rejected" /\ page.last.id = 1
    /\ requests[1].status = "rejected"
    /\ Held(page.list) = {2}

\* the tabs of the customer's Orders page that show an order of this status
Tabs(status) ==
    { activeTab \in {"new", "history"} :
        filteredOrders(<<[_id |-> 1, status |-> status]>>, activeTab) # << >> }

\* C29, under Spec: an order is under the 'new' tab exactly when its status is
\* accepted, in-progress or completed and under the 'history' tab exactly when
\* it is PaymentCompleted or rejected, never under both; and a request that has
\* come under 'history' stays there, while one under 'new' stays or passes to
\* 'history'.
C29_NewThenHistory ==
    [][ /\ \A status \in StatusValues :
              /\ "new" \in Tabs(status)
                   <=> status \in {"accepted", "in-progress", "completed"}
              /\ "history" \in Tabs(status)
                   <=> status \in {"PaymentCompleted", "rejected"}
              /\ Tabs(status) # {"new", "history"}
        /\ \A i \in 1..Len(requests) :
              /\ "history" \in Tabs(requests[i].status)
                   => "history" \in Tabs(requests'[i].status)
              /\ "new" \in Tabs(requests[i].status)
                   => Tabs(requests'[i].status) # {} ]_vars

\* the step is a handler of the page, named in `names`, invoked without a token
WithoutToken(names) ==
    /\ ~page.token
    /\ page'.last # page.last
    /\ page'.last.step \in names

\* C30, under SpecPages: a page whose user has no access token sends no
\* request; its list fetch empties the list and ends loading; its accept,
\* reject and status-update handlers send nothing and leave the list as it
\* was; and when a fetch completes, with a list, with a malformed response or
\* with an error, loading is off.
C30_NoTokenNoRequest ==
    [][ /\ ~page.token
           => /\ page'.issued = page.issued
              /\ \A m \in page'.net : \E o \in page.net : o.n = m.n
        /\ WithoutToken({"fetchOrders", "fetchRequests"})
           => page'.list = << >> /\ ~page'.loading
        /\ WithoutToken({"handleAccept", "handleReject", "handleReject, declined",
                         "handleUpdateStatus"})
           => page'.list = page.list /\ page'.net = page.net
        /\ Completes("fetched") => ~page'.loading ]_vars

\* C30 happens: the user logged out while the list request was in flight, its
\* response filled the list, and an accept invoked then, without a token, sent
\* nothing
C30_Witness ==
    /\ page.kind \in ProviderRequests
    /\ ~page.token
    /\ page.last.step = "handleAccept" /\ page.last.n = 0
    /\ page.list # << >>
    /\ page.net = {}
    /\ page.issued = 1

====
